---------------------------- MODULE Spec2Model ----------------------------
(* Host/device model of the wgpu-tutorial examples.                        *)
(*                                                                         *)
(* The host is the single async task of each example's run(): it records   *)
(* a command encoder, submits it, requests a mapping of the staging        *)
(* buffer, polls the device, reads the mapped range and unmaps.  The       *)
(* device executes the submitted commands one at a time, in submission     *)
(* order, concurrently with the host.  The three host programs are         *)
(*   "triangle": example_01_triangle (examples 02 and 04 read back with    *)
(*               the same to_image and the same run() tail),               *)
(*   "camera"  : example_05_camera,                                        *)
(*   "gol"     : example_06_gol, the ping-pong loop.                       *)
EXTENDS Integers, Sequences, FiniteSets, TLC

VARIABLES
    example,     \* which run() is executing
    pc,          \* the host's position in run()
    i,           \* gol: the loop variable of `for i in 0..N_ITERS`
    encoder,     \* commands recorded in the current command encoder
    queue,       \* commands submitted to the queue and not yet executed
    tex,         \* contents of the textures (grids[0], grids[1] / colour target)
    staging,     \* contents of the staging buffer, as two halves
    bufState,    \* mapping state of the staging buffer
    mapResult,   \* argument the map_async callback was called with, or "none"
    viewLive,    \* a BufferView of the staging buffer exists on the host
    data,        \* the bytes seen through the BufferView
    deviceLost,  \* the connection to the device has been lost
    frames,      \* gol: frames written to the gif encoder
    image,       \* triangle/camera: the image built from the read-back bytes
    readAt,      \* mapping state at the last call of get_mapped_range
    readRes,     \* outcome of the last call of get_mapped_range
    submitAt,    \* mapping state at the last queue.submit
    submitRes,   \* outcome of the last queue.submit
    copyAt,      \* mapping states during which the device wrote the staging buffer
    passLog,     \* gol: the compute passes the device has executed, in order
    acquire,     \* how init_wgpu_device ended: "none" (not yet), "Ok", "Err", "panic"
    rx,          \* the map result the callback handed to the host code, or "none"
    encId,       \* number of command encoders created so far (id of the current one)
    submits,     \* ids of the encoders whose commands were submitted, in order
    groups,      \* gol: the bind groups created on the device, in creation order
    width,       \* width of the texture (grid) the sizes are derived from
    height,      \* height of the texture (grid)
    texel_size,  \* bytes per texel of the texture's format
    dispatched,  \* workgroup counts launch_kernel passed to dispatch_workgroups
    bufferDesc,  \* the staging-buffer descriptor derived for the texture
    pixel,       \* depth test: stored depth and colour of one pixel of the targets
    pending,     \* depth test: fragments covering the pixel, not yet drawn
    drawn,       \* depth test: fragments covering the pixel, already drawn
    cells,       \* kernel: the cells of the grid the pass reads (0 dead, 1 alive)
    nextCells,   \* kernel: the cells the pass wrote, <<>> before the pass
    gifFrame     \* kernel: the pixels of the frame written for the iteration

vars == <<example, pc, i, encoder, queue, tex, staging, bufState, mapResult,
          viewLive, data, deviceLost, frames, image, readAt, readRes,
          submitAt, submitRes, copyAt, passLog, acquire, rx, encId, submits,
          groups, width, height, texel_size, dispatched, bufferDesc,
          pixel, pending, drawn, cells, nextCells, gifFrame>>

\* The state of a run() and of its device.
runVars == <<example, pc, i, encoder, queue, tex, staging, bufState,
             mapResult, viewLive, data, deviceLost, frames, image, readAt,
             readRes, submitAt, submitRes, copyAt, passLog, acquire, rx,
             encId, submits, groups>>

\* The inputs and results of the size computations.
sizeVars == <<width, height, texel_size, dispatched, bufferDesc>>

\* One pixel of the colour and depth targets and the fragments that cover it.
depthVars == <<pixel, pending, drawn>>

\* The cells of one iteration of the automaton.
kernelVars == <<cells, nextCells, gifFrame>>

\* Number of loop iterations (1000 in the source; bounded here).
N_ITERS == 3

Examples == {"triangle", "camera", "gol"}
Slots == {0, 1}
MapStates == {"Unmapped", "MapRequested", "Mapped"}

\* A texture that no command has written yet.
Blank == [gen |-> -1]
\* The random initial automaton state uploaded to grids[0].
SeedState == [gen |-> 0]
\* The colour target after the render pass's load op (LoadOp::Clear) and
\* before its draw.
Cleared == [gen |-> 0]
\* The image produced by the render pass.
Rendered == [gen |-> 1]

\* A staging-buffer half that no copy has written yet.
NoCopy == [seq |-> -1, val |-> Blank]

Cmd(op, a, b, seq) == [op |-> op, a |-> a, b |-> b, seq |-> seq]


\* Variant in which desc_alt binds grid_views[1] to both bindings.
bind_groups_aliased ==
    << [input |-> 0, output |-> 1],
       [input |-> 1, output |-> 1] >>

\* Variant in which desc_alt repeats the entries of desc.
bind_groups_same ==
    << [input |-> 0, output |-> 1],
       [input |-> 0, output |-> 1] >>

\* (7) The two bind groups: binding 0 is the grid the kernel reads, binding 1
\* the grid it writes.  bind_groups[1] is `desc`, bind_groups[2] is `desc_alt`
\* (sequences are 1-based: source index k is k + 1 here).
bind_groups ==
    << [input |-> 0, output |-> 1],
       [input |-> 1, output |-> 0] >>

\* Variant that always passes `&bind_groups[0]`.
BindGroupOfStuck(n) == bind_groups[1]

\* `&bind_groups[i % 2]`: the bind group iteration n uses.
BindGroupOf(n) == bind_groups[(n % 2) + 1]

\* Variant that copies the grid the pass of iteration n writes.
CopySourceOfOutput(n) == 1 - (n % 2)

\* `&grids[i % 2]`: the texture iteration n copies into the staging buffer.
CopySourceOf(n) == n % 2

\* Variant that binds the two grids the wrong way round.
launch_kernel_swapped(bg, n) == << Cmd("compute", bg.output, bg.input, n) >>

\* (8.1) launch_kernel records one compute pass with the given bind group.
launch_kernel(bg, n) == << Cmd("compute", bg.input, bg.output, n) >>

\* draw_pipeline records one render pass that targets the colour texture.
\* The device runs it in two steps: the clear of the load op, then the draw.
draw_pipeline == << Cmd("render", 0, 1, 0), Cmd("render", 0, 2, 0) >>

\* Variant that copies only the first half of the texture.
copy_texture_to_buffer_half(src, n) == << Cmd("copy", src, 1, n) >>

\* (8.2) copy_texture_to_buffer records a copy of the whole texture into the
\* buffer.  The device writes the buffer in two halves, so that a host read
\* racing with the copy would see a partial copy.
copy_texture_to_buffer(src, n) ==
    << Cmd("copy", src, 1, n), Cmd("copy", src, 2, n) >>

\* Variant of run() that records the copy before the render pass.
RenderCommandsCopyFirst == copy_texture_to_buffer(0, 0) \o draw_pipeline

\* triangle/camera (6.1)-(6.2): the commands run() records into the encoder,
\* the render pass and then the copy of its target into the staging buffer.
RenderCommands == draw_pipeline \o copy_texture_to_buffer(0, 0)

\* One application of the compute kernel: the next automaton state.
Step(t) == IF t = Blank THEN Blank ELSE [gen |-> t.gen + 1]

\* device.poll(Maintain::Wait) returns once the submitted work is finished
\* (or can never finish).
WorkDone == queue = <<>> \/ deviceLost

\* Variants of the loop body with one statement misplaced or missing.
GolLoopNoUnmap ==
    << "encode", "submit", "map_async", "poll", "get_mapped_range",
       "write_frame", "drop" >>

GolLoopEarlyUnmap ==
    << "encode", "submit", "map_async", "unmap", "poll", "get_mapped_range",
       "write_frame", "drop" >>

GolLoopReadBeforeSubmit ==
    << "encode", "map_async", "poll", "get_mapped_range", "write_frame",
       "drop", "unmap", "submit" >>

GolLoopUnmapBeforeDrop ==
    << "encode", "submit", "map_async", "poll", "get_mapped_range",
       "write_frame", "unmap", "drop" >>

GolLoopNoPoll ==
    << "encode", "submit", "map_async", "get_mapped_range", "write_frame",
       "drop", "unmap" >>

GolLoopNoReadback ==
    << "encode", "submit" >>

\* The statements of example_06's loop body, in program order.
GolLoop ==
    << "encode", "submit", "map_async", "poll", "get_mapped_range",
       "write_frame", "drop", "unmap" >>

\* Variant of run() that awaits the map result without polling the device.
TriangleRunNoPoll ==
    << "encode", "submit", "map_async", "rx_await", "get_mapped_range",
       "to_image_return", "save", "unmap" >>

\* The statements of example_01's run() from the encoder on (to_image inlined).
TriangleRun ==
    << "encode", "submit", "map_async", "poll", "rx_await",
       "get_mapped_range", "to_image_return", "save", "unmap" >>

\* The statements of example_05's run() from the encoder on
\* (retrieve_texture_buffer_data inlined).
CameraRun ==
    << "encode", "submit", "map_async", "poll", "rx_await",
       "get_mapped_range", "from_raw", "save", "drop", "unmap" >>

Program ==
    CASE example = "gol" -> GolLoop
      [] example = "triangle" -> TriangleRun
      [] example = "camera" -> CameraRun

Labels == {Program[k] : k \in 1..Len(Program)}

Pos(l) == CHOOSE k \in 1..Len(Program) : Program[k] = l

\* The host is at the last statement of the program (of the loop body).
AtEnd == pc \in Labels /\ Pos(pc) = Len(Program)

\* Variant of the loop `for i in 0..=N_ITERS`.
NextPcInclusive ==
    IF pc \notin Labels THEN Program[1]
    ELSE IF ~AtEnd THEN Program[Pos(pc) + 1]
    ELSE IF example = "gol" /\ i + 1 <= N_ITERS THEN Program[1]
    ELSE "done"

\* The statement after the current one: the next one in program order, and
\* after the last one the next iteration of `for i in 0..N_ITERS`, or the end.
NextPc ==
    IF pc \notin Labels THEN Program[1]
    ELSE IF ~AtEnd THEN Program[Pos(pc) + 1]
    ELSE IF example = "gol" /\ i + 1 < N_ITERS THEN Program[1]
    ELSE "done"

NextI == IF AtEnd /\ example = "gol" THEN i + 1 ELSE i

\* The callback given to map_async.  Examples 01/02/04/05 send the result
\* over a oneshot channel to the code that awaits it; example 06 passes
\* `|_| {}`, which drops it.
MapCallback(result) == IF example = "gol" THEN rx ELSE result

\* (2) The grids of example 06 are 256 x 256.
GridWidth == 256
GridHeight == 256

\* No descriptor has been derived yet.
NoDesc == [size |-> <<-1, -1>>, usage |-> {}]

\* Byte counts can exceed what one machine word holds.  A count n is kept as
\* the pair <<n \div 2^16, n % 2^16>>: the low half is always below 2^16, the
\* high half is unbounded.
Radix == 2^16

Wide(n) == << n \div Radix, n % Radix >>

WideAdd(x, y) ==
    LET low == x[2] + y[2]
    IN  << x[1] + y[1] + (low \div Radix), low % Radix >>

\* The count x times a factor k of at most 2^8.
WideScale(x, k) ==
    << x[1] * k + ((x[2] * k) \div Radix), (x[2] * k) % Radix >>

\* The mathematical product of the count x and a natural number b of at most
\* 2^16, taken one 8-bit half of b at a time: x * b = x * (b % 2^8) +
\* (x * (b \div 2^8)) * 2^8.
WideMul(x, b) ==
    WideAdd(WideScale(x, b % (2^8)),
            WideScale(WideScale(x, b \div (2^8)), 2^8))

\* A count reduced modulo 2^32, the width of u32.
WrapU32(x) == << x[1] % Radix, x[2] >>

\* u32 * u32 where overflow checks are off: the product modulo 2^32.
wrapping_mul(x, b) == WrapU32(WideMul(x, b))

\* Whether the u32 product x * b differs from the mathematical one.
mul_overflows(x, b) == WideMul(x, b) # wrapping_mul(x, b)

\* What an expression leaves when a u32 multiplication with overflow checks
\* on panics ("attempt to multiply with overflow"): no descriptor is built.
OverflowPanic == [size |-> <<-2, -2>>, usage |-> {}]

\* Overflow checks are on in debug builds and off in release builds.
Builds == {"debug", "release"}

\* Largest texture side the size computations are applied to (besides the
\* 256 of example 06).
MaxDim == 20

\* The largest side of a 2D texture a device created with the default limits
\* accepts (max_texture_dimension_2d).
MaxTextureDimension == 8192

\* Sides that reach the texture limit, and one u32 value beyond it.
LargeDims == {MaxTextureDimension, 2^16}

Dims == (1..MaxDim) \cup {GridWidth, GridHeight} \cup LargeDims

\* Bytes per texel of the texture formats (block_copy_size).
TexelSizes == {1, 2, 4, 8, 16}

\* The side of a workgroup: "Workgroups are arranged in 16x16 grid".
WorkgroupSize == 16

\* Variant that divides the width only.
WorkgroupCountWidthOnly(w, h) == << w \div WorkgroupSize, h, 1 >>

\* (8.1) The arguments launch_kernel passes to dispatch_workgroups for a grid
\* of w x h cells (u32 division truncates).
WorkgroupCount(w, h) == << w \div WorkgroupSize, h \div WorkgroupSize, 1 >>

\* (4) The descriptor init_buffer builds for a width x height grid.
\* Variant that leaves out the 4 bytes of a texel.
init_buffer_one_byte_per_texel(w, h) ==
    [size |-> wrapping_mul(Wide(w), h), usage |-> {"COPY_DST", "MAP_READ"}]

init_buffer(w, h) ==
    [size |-> wrapping_mul(wrapping_mul(Wide(w), h), 4),
     usage |-> {"COPY_DST", "MAP_READ"}]

\* Whether one of the two u32 multiplications of init_buffer overflows.
init_buffer_overflows(w, h) ==
    \/ mul_overflows(Wide(w), h)
    \/ mul_overflows(wrapping_mul(Wide(w), h), 4)

\* (5.1) The descriptor create_texture_buffer_descriptor builds for a texture
\* of w x h texels of ts bytes.
create_texture_buffer_descriptor(ts, w, h) ==
    [size |-> wrapping_mul(wrapping_mul(Wide(ts), w), h),
     usage |-> {"COPY_DST", "MAP_READ"}]

create_texture_buffer_descriptor_overflows(ts, w, h) ==
    \/ mul_overflows(Wide(ts), w)
    \/ mul_overflows(wrapping_mul(Wide(ts), w), h)

\* The byte layout copy_texture_to_buffer gives the copy: rows of
\* bytes_per_row = texel_size * width bytes (a u32 product), rows_per_image =
\* height of them; the copy writes bytes_per_row x rows bytes.
BytesPerRow(ts, w) == wrapping_mul(Wide(ts), w)

CopyBytes(ts, w, h) == WideMul(BytesPerRow(ts, w), h)

\* A pixel of render targets that no pass has cleared yet.
NoPixel == [depth |-> -1, colour |-> "none"]

\* No render pass with a depth target is being followed.
DepthIdle ==
    /\ pixel = NoPixel
    /\ pending = {}
    /\ drawn = {}

\* No iteration of the automaton is being followed cell by cell.
KernelIdle ==
    /\ cells = <<>>
    /\ nextCells = <<>>
    /\ gifFrame = <<>>

\* Nothing has been recorded, submitted, mapped or read yet.
Idle ==
    /\ i = 0
    /\ encoder = <<>>
    /\ queue = <<>>
    /\ tex = [s \in Slots |-> Blank]
    /\ staging = <<NoCopy, NoCopy>>
    /\ bufState = "Unmapped"
    /\ mapResult = "none"
    /\ viewLive = FALSE
    /\ data = <<NoCopy, NoCopy>>
    /\ deviceLost = FALSE
    /\ frames = <<>>
    /\ image = <<NoCopy, NoCopy>>
    /\ readAt = "none"
    /\ readRes = "none"
    /\ submitAt = "none"
    /\ submitRes = "none"
    /\ copyAt = {}
    /\ passLog = <<>>
    /\ acquire = "none"
    /\ rx = "none"
    /\ encId = 0
    /\ submits = <<>>
    /\ groups = <<>>

Init ==
    /\ example \in Examples
    /\ pc = "request_adapter"
    /\ Idle
    /\ width = GridWidth
    /\ height = GridHeight
    /\ texel_size = 4
    /\ dispatched = <<>>
    /\ bufferDesc = NoDesc
    /\ DepthIdle
    /\ KernelIdle

-----------------------------------------------------------------------------
(* Host steps                                                              *)

\* (1) init_wgpu_device: instance.request_adapter(..).await.unwrap().  With no
\* adapter the future yields None and the unwrap panics inside
\* init_wgpu_device.
RequestAdapter ==
    /\ pc = "request_adapter"
    /\ \E found \in BOOLEAN :
         IF found
         THEN pc' = "request_device" /\ acquire' = acquire
         ELSE pc' = "panicked" /\ acquire' = "panic"
    /\ UNCHANGED <<example, i, encoder, queue, tex, staging, bufState,
                   mapResult, viewLive, data, deviceLost, frames, image,
                   readAt, readRes, submitAt, submitRes, copyAt, passLog, rx,
                   encId, submits>>
    /\ UNCHANGED sizeVars
    /\ UNCHANGED groups
    /\ UNCHANGED depthVars
    /\ UNCHANGED kernelVars

\* (1) adapter.request_device(..).await is the value init_wgpu_device returns:
\* Ok((device, queue)) or Err(RequestDeviceError).
RequestDevice ==
    /\ pc = "request_device"
    /\ \E granted \in BOOLEAN :
         acquire' = IF granted THEN "Ok" ELSE "Err"
    /\ pc' = "unwrap_device"
    /\ UNCHANGED <<example, i, encoder, queue, tex, staging, bufState,
                   mapResult, viewLive, data, deviceLost, frames, image,
                   readAt, readRes, submitAt, submitRes, copyAt, passLog, rx,
                   encId, submits>>
    /\ UNCHANGED sizeVars
    /\ UNCHANGED groups
    /\ UNCHANGED depthVars
    /\ UNCHANGED kernelVars

\* run(): `init_wgpu_device().await.unwrap()` panics on Err and otherwise goes
\* on to create the resources.
UnwrapDevice ==
    /\ pc = "unwrap_device"
    /\ pc' = IF acquire # "Ok" THEN "panicked"
             ELSE IF example = "gol" THEN "write_texture"
             ELSE Program[1]
    /\ UNCHANGED <<example, i, encoder, queue, tex, staging, bufState,
                   mapResult, viewLive, data, deviceLost, frames, image,
                   readAt, readRes, submitAt, submitRes, copyAt, passLog,
                   acquire, rx, encId, submits>>
    /\ UNCHANGED sizeVars
    /\ UNCHANGED groups
    /\ UNCHANGED depthVars
    /\ UNCHANGED kernelVars

\* Variant of run() without the upload of the initial state.
WriteTextureSkipped ==
    /\ pc = "write_texture"
    /\ queue' = queue
    /\ pc' = "create_bind_group"
    /\ i' = i
    /\ UNCHANGED <<example, encoder, tex, staging, bufState, mapResult,
                   viewLive, data, deviceLost, frames, image, readAt, readRes,
                   submitAt, submitRes, copyAt, passLog>>
    /\ UNCHANGED <<acquire, rx, encId, submits>>
    /\ UNCHANGED sizeVars
    /\ UNCHANGED groups
    /\ UNCHANGED depthVars
    /\ UNCHANGED kernelVars

\* gol (3): queue.write_texture uploads the initial state into grids[0].
WriteTexture ==
    /\ pc = "write_texture"
    /\ queue' = IF deviceLost THEN queue
                ELSE Append(queue, Cmd("write", 0, 0, -1))
    /\ pc' = "create_bind_group"
    /\ i' = i
    /\ UNCHANGED <<example, encoder, tex, staging, bufState, mapResult,
                   viewLive, data, deviceLost, frames, image, readAt, readRes,
                   submitAt, submitRes, copyAt, passLog>>
    /\ UNCHANGED <<acquire, rx, encId, submits>>
    /\ UNCHANGED sizeVars
    /\ UNCHANGED groups
    /\ UNCHANGED depthVars
    /\ UNCHANGED kernelVars

\* gol (7): the two calls of device.create_bind_group, with `desc` and with
\* `desc_alt`; the loop follows.
CreateBindGroups ==
    /\ pc = "create_bind_group"
    /\ groups' = groups \o bind_groups
    /\ pc' = NextPc
    /\ i' = NextI
    /\ UNCHANGED <<example, encoder, queue, tex, staging, bufState, mapResult,
                   viewLive, data, deviceLost, frames, image, readAt, readRes,
                   submitAt, submitRes, copyAt, passLog>>
    /\ UNCHANGED <<acquire, rx, encId, submits>>
    /\ UNCHANGED sizeVars
    /\ UNCHANGED depthVars
    /\ UNCHANGED kernelVars

\* Variant that creates the bind group of the iteration inside the loop.
GolEncodeNewBindGroup ==
    /\ pc = "encode"
    /\ example = "gol"
    /\ encId' = encId + 1
    /\ encoder' = launch_kernel(BindGroupOf(i), i)
                    \o copy_texture_to_buffer(CopySourceOf(i), i)
    /\ pc' = NextPc
    /\ i' = NextI
    /\ UNCHANGED <<example, queue, tex, staging, bufState, mapResult,
                   viewLive, data, deviceLost, frames, image, readAt, readRes,
                   submitAt, submitRes, copyAt, passLog>>
    /\ UNCHANGED <<acquire, rx, submits>>
    /\ UNCHANGED sizeVars
    /\ groups' = Append(groups, BindGroupOf(i))
    /\ UNCHANGED depthVars
    /\ UNCHANGED kernelVars

\* Variant that records every iteration into the encoder created first.
GolEncodeSameEncoder ==
    /\ pc = "encode"
    /\ example = "gol"
    /\ encId' = encId
    /\ encoder' = launch_kernel(BindGroupOf(i), i)
                    \o copy_texture_to_buffer(CopySourceOf(i), i)
    /\ pc' = NextPc
    /\ i' = NextI
    /\ UNCHANGED <<example, queue, tex, staging, bufState, mapResult,
                   viewLive, data, deviceLost, frames, image, readAt, readRes,
                   submitAt, submitRes, copyAt, passLog>>
    /\ UNCHANGED <<acquire, rx, submits>>
    /\ UNCHANGED sizeVars
    /\ UNCHANGED groups
    /\ UNCHANGED depthVars
    /\ UNCHANGED kernelVars

\* gol (8.1)-(8.2): a fresh encoder, the compute pass, the copy.
GolEncode ==
    /\ pc = "encode"
    /\ example = "gol"
    /\ encId' = encId + 1
    /\ encoder' = launch_kernel(BindGroupOf(i), i)
                    \o copy_texture_to_buffer(CopySourceOf(i), i)
    /\ pc' = NextPc
    /\ i' = NextI
    /\ UNCHANGED <<example, queue, tex, staging, bufState, mapResult,
                   viewLive, data, deviceLost, frames, image, readAt, readRes,
                   submitAt, submitRes, copyAt, passLog>>
    /\ UNCHANGED <<acquire, rx, submits>>
    /\ UNCHANGED sizeVars
    /\ UNCHANGED groups
    /\ UNCHANGED depthVars
    /\ UNCHANGED kernelVars

\* triangle/camera (6.1)-(6.2): a fresh encoder, the render pass, the copy.
RenderEncode ==
    /\ pc = "encode"
    /\ example \in {"triangle", "camera"}
    /\ encId' = encId + 1
    /\ encoder' = RenderCommands
    /\ pc' = NextPc
    /\ i' = NextI
    /\ UNCHANGED <<example, queue, tex, staging, bufState, mapResult,
                   viewLive, data, deviceLost, frames, image, readAt, readRes,
                   submitAt, submitRes, copyAt, passLog>>
    /\ UNCHANGED <<acquire, rx, submits>>
    /\ UNCHANGED sizeVars
    /\ UNCHANGED groups
    /\ UNCHANGED depthVars
    /\ UNCHANGED kernelVars

\* queue.submit(Some(encoder.finish())): returns at once.  A submission that
\* uses a buffer which is not Unmapped is a validation error, which the
\* default error handler turns into a panic.
Submit ==
    /\ pc = "submit"
    /\ submitAt' = bufState
    /\ IF bufState = "Unmapped"
       THEN /\ queue' = IF deviceLost THEN queue ELSE queue \o encoder
            /\ submitRes' = "ok"
            /\ pc' = NextPc
            /\ i' = NextI
       ELSE /\ queue' = queue
            /\ submitRes' = "panic"
            /\ pc' = "panicked"
            /\ i' = i
    /\ encoder' = <<>>
    /\ submits' = Append(submits, encId)
    /\ UNCHANGED <<example, tex, staging, bufState, mapResult, viewLive, data,
                   deviceLost, frames, image, readAt, readRes, copyAt,
                   passLog>>
    /\ UNCHANGED <<acquire, rx, encId>>
    /\ UNCHANGED sizeVars
    /\ UNCHANGED groups
    /\ UNCHANGED depthVars
    /\ UNCHANGED kernelVars

\* Variant in which the map request waits for the submitted work.
MapAsyncBlocking ==
    /\ pc = "map_async"
    /\ queue = <<>>
    /\ IF bufState = "Unmapped"
       THEN /\ bufState' = "MapRequested"
            /\ mapResult' = "none"
            /\ rx' = rx
       ELSE /\ bufState' = bufState
            /\ mapResult' = "err"
            /\ rx' = MapCallback("err")
    /\ pc' = NextPc
    /\ i' = NextI
    /\ UNCHANGED <<example, encoder, queue, tex, staging, viewLive, data,
                   deviceLost, frames, image, readAt, readRes, submitAt,
                   submitRes, copyAt, passLog>>
    /\ UNCHANGED <<acquire, encId, submits>>
    /\ UNCHANGED sizeVars
    /\ UNCHANGED groups
    /\ UNCHANGED depthVars
    /\ UNCHANGED kernelVars

\* buffer_slice.map_async(MapMode::Read, callback): registers the callback
\* and returns at once.  On a buffer that is not Unmapped the request fails
\* and the callback gets the error.
MapAsync ==
    /\ pc = "map_async"
    /\ IF bufState = "Unmapped"
       THEN /\ bufState' = "MapRequested"
            /\ mapResult' = "none"
            /\ rx' = rx
       ELSE /\ bufState' = bufState
            /\ mapResult' = "err"
            /\ rx' = MapCallback("err")
    /\ pc' = NextPc
    /\ i' = NextI
    /\ UNCHANGED <<example, encoder, queue, tex, staging, viewLive, data,
                   deviceLost, frames, image, readAt, readRes, submitAt,
                   submitRes, copyAt, passLog>>
    /\ UNCHANGED <<acquire, encId, submits>>
    /\ UNCHANGED sizeVars
    /\ UNCHANGED groups
    /\ UNCHANGED depthVars
    /\ UNCHANGED kernelVars

\* device.poll(Maintain::Wait): blocks until the submitted work is done, then
\* resolves the pending mapping and calls its callback with the result.
Poll ==
    /\ pc = "poll"
    /\ WorkDone
    /\ IF bufState = "MapRequested" /\ queue = <<>>
       THEN IF deviceLost
            THEN /\ bufState' = "Unmapped"
                 /\ mapResult' = "err"
                 /\ rx' = MapCallback("err")
            ELSE /\ bufState' = "Mapped"
                 /\ mapResult' = "ok"
                 /\ rx' = MapCallback("ok")
       ELSE UNCHANGED <<bufState, mapResult, rx>>
    /\ pc' = NextPc
    /\ i' = NextI
    /\ UNCHANGED <<example, encoder, queue, tex, staging, viewLive, data,
                   deviceLost, frames, image, readAt, readRes, submitAt,
                   submitRes, copyAt, passLog>>
    /\ UNCHANGED <<acquire, encId, submits>>
    /\ UNCHANGED sizeVars
    /\ UNCHANGED groups
    /\ UNCHANGED depthVars
    /\ UNCHANGED kernelVars

\* triangle/camera: rx.await.unwrap().unwrap() waits until the callback has
\* sent the map result and panics if it is an error.
RxAwait ==
    /\ pc = "rx_await"
    /\ rx # "none"
    /\ IF rx = "ok"
       THEN pc' = NextPc /\ i' = NextI
       ELSE pc' = "panicked" /\ i' = i
    /\ UNCHANGED <<example, encoder, queue, tex, staging, bufState, mapResult,
                   viewLive, data, deviceLost, frames, image, readAt, readRes,
                   submitAt, submitRes, copyAt, passLog>>
    /\ UNCHANGED <<acquire, rx, encId, submits>>
    /\ UNCHANGED sizeVars
    /\ UNCHANGED groups
    /\ UNCHANGED depthVars
    /\ UNCHANGED kernelVars

\* buffer_slice.get_mapped_range(): yields a view of the bytes if the buffer
\* is mapped and panics otherwise.
GetMappedRange ==
    /\ pc = "get_mapped_range"
    /\ readAt' = bufState
    /\ IF bufState = "Mapped"
       THEN /\ viewLive' = TRUE
            /\ data' = staging
            /\ readRes' = "view"
            /\ pc' = NextPc
            /\ i' = NextI
       ELSE /\ readRes' = "panic"
            /\ pc' = "panicked"
            /\ i' = i
            /\ UNCHANGED <<viewLive, data>>
    /\ UNCHANGED <<example, encoder, queue, tex, staging, bufState, mapResult,
                   deviceLost, frames, image, submitAt, submitRes, copyAt,
                   passLog>>
    /\ UNCHANGED <<acquire, rx, encId, submits>>
    /\ UNCHANGED sizeVars
    /\ UNCHANGED groups
    /\ UNCHANGED depthVars
    /\ UNCHANGED kernelVars

\* gol (8.5): the bytes are converted into `pixels` and written as a frame.
WriteFrame ==
    /\ pc = "write_frame"
    /\ frames' = Append(frames, data)
    /\ pc' = NextPc
    /\ i' = NextI
    /\ UNCHANGED <<example, encoder, queue, tex, staging, bufState, mapResult,
                   viewLive, data, deviceLost, image, readAt, readRes,
                   submitAt, submitRes, copyAt, passLog>>
    /\ UNCHANGED <<acquire, rx, encId, submits>>
    /\ UNCHANGED sizeVars
    /\ UNCHANGED groups
    /\ UNCHANGED depthVars
    /\ UNCHANGED kernelVars

\* triangle: the last line of to_image copies the bytes into the image; the
\* view `data` is a local of to_image and is dropped when it returns.
ToImageReturn ==
    /\ pc = "to_image_return"
    /\ image' = data
    /\ viewLive' = FALSE
    /\ pc' = NextPc
    /\ i' = NextI
    /\ UNCHANGED <<example, encoder, queue, tex, staging, bufState, mapResult,
                   data, deviceLost, frames, readAt, readRes, submitAt,
                   submitRes, copyAt, passLog>>
    /\ UNCHANGED <<acquire, rx, encId, submits>>
    /\ UNCHANGED sizeVars
    /\ UNCHANGED groups
    /\ UNCHANGED depthVars
    /\ UNCHANGED kernelVars

\* camera: RgbaImage::from_raw copies the bytes; img_data stays alive until
\* the end of the enclosing block.
FromRaw ==
    /\ pc = "from_raw"
    /\ image' = data
    /\ pc' = NextPc
    /\ i' = NextI
    /\ UNCHANGED <<example, encoder, queue, tex, staging, bufState, mapResult,
                   viewLive, data, deviceLost, frames, readAt, readRes,
                   submitAt, submitRes, copyAt, passLog>>
    /\ UNCHANGED <<acquire, rx, encId, submits>>
    /\ UNCHANGED sizeVars
    /\ UNCHANGED groups
    /\ UNCHANGED depthVars
    /\ UNCHANGED kernelVars

\* img.save("image.png").
Save ==
    /\ pc = "save"
    /\ pc' = NextPc
    /\ i' = NextI
    /\ UNCHANGED <<example, encoder, queue, tex, staging, bufState, mapResult,
                   viewLive, data, deviceLost, frames, image, readAt, readRes,
                   submitAt, submitRes, copyAt, passLog>>
    /\ UNCHANGED <<acquire, rx, encId, submits>>
    /\ UNCHANGED sizeVars
    /\ UNCHANGED groups
    /\ UNCHANGED depthVars
    /\ UNCHANGED kernelVars

\* gol (8.6): drop(data).  camera: the closing brace of block (11) drops
\* img_data.
Drop ==
    /\ pc = "drop"
    /\ viewLive' = FALSE
    /\ pc' = NextPc
    /\ i' = NextI
    /\ UNCHANGED <<example, encoder, queue, tex, staging, bufState, mapResult,
                   data, deviceLost, frames, image, readAt, readRes, submitAt,
                   submitRes, copyAt, passLog>>
    /\ UNCHANGED <<acquire, rx, encId, submits>>
    /\ UNCHANGED sizeVars
    /\ UNCHANGED groups
    /\ UNCHANGED depthVars
    /\ UNCHANGED kernelVars

\* staging_buffer.unmap() / output_buffer.unmap().
Unmap ==
    /\ pc = "unmap"
    /\ bufState' = "Unmapped"
    /\ pc' = NextPc
    /\ i' = NextI
    /\ UNCHANGED <<example, encoder, queue, tex, staging, mapResult, viewLive,
                   data, deviceLost, frames, image, readAt, readRes, submitAt,
                   submitRes, copyAt, passLog>>
    /\ UNCHANGED <<acquire, rx, encId, submits>>
    /\ UNCHANGED sizeVars
    /\ UNCHANGED groups
    /\ UNCHANGED depthVars
    /\ UNCHANGED kernelVars

-----------------------------------------------------------------------------
(* Device steps: the head of the queue is executed, in submission order.   *)

ExecWrite ==
    /\ ~deviceLost
    /\ queue # <<>>
    /\ Head(queue).op = "write"
    /\ tex' = [tex EXCEPT ![Head(queue).a] = SeedState]
    /\ queue' = Tail(queue)
    /\ UNCHANGED <<example, pc, i, encoder, staging, bufState, mapResult,
                   viewLive, data, deviceLost, frames, image, readAt, readRes,
                   submitAt, submitRes, copyAt, passLog>>
    /\ UNCHANGED <<acquire, rx, encId, submits>>
    /\ UNCHANGED sizeVars
    /\ UNCHANGED groups
    /\ UNCHANGED depthVars
    /\ UNCHANGED kernelVars

ExecCompute ==
    /\ ~deviceLost
    /\ queue # <<>>
    /\ Head(queue).op = "compute"
    /\ LET c == Head(queue) IN
         /\ tex' = [tex EXCEPT ![c.b] = Step(tex[c.a])]
         /\ passLog' = Append(passLog,
                          [seq |-> c.seq, in |-> c.a, out |-> c.b,
                           read |-> tex[c.a], wrote |-> Step(tex[c.a])])
    /\ queue' = Tail(queue)
    /\ UNCHANGED <<example, pc, i, encoder, staging, bufState, mapResult,
                   viewLive, data, deviceLost, frames, image, readAt, readRes,
                   submitAt, submitRes, copyAt>>
    /\ UNCHANGED <<acquire, rx, encId, submits>>
    /\ UNCHANGED sizeVars
    /\ UNCHANGED groups
    /\ UNCHANGED depthVars
    /\ UNCHANGED kernelVars

ExecRender ==
    /\ ~deviceLost
    /\ queue # <<>>
    /\ Head(queue).op = "render"
    /\ tex' = [tex EXCEPT ![Head(queue).a] =
                              IF Head(queue).b = 1 THEN Cleared ELSE Rendered]
    /\ queue' = Tail(queue)
    /\ UNCHANGED <<example, pc, i, encoder, staging, bufState, mapResult,
                   viewLive, data, deviceLost, frames, image, readAt, readRes,
                   submitAt, submitRes, copyAt, passLog>>
    /\ UNCHANGED <<acquire, rx, encId, submits>>
    /\ UNCHANGED sizeVars
    /\ UNCHANGED groups
    /\ UNCHANGED depthVars
    /\ UNCHANGED kernelVars

ExecCopy ==
    /\ ~deviceLost
    /\ queue # <<>>
    /\ Head(queue).op = "copy"
    /\ LET c == Head(queue) IN
         staging' = [staging EXCEPT ![c.b] = [seq |-> c.seq, val |-> tex[c.a]]]
    /\ copyAt' = copyAt \cup {bufState}
    /\ queue' = Tail(queue)
    /\ UNCHANGED <<example, pc, i, encoder, tex, bufState, mapResult,
                   viewLive, data, deviceLost, frames, image, readAt, readRes,
                   submitAt, submitRes, passLog>>
    /\ UNCHANGED <<acquire, rx, encId, submits>>
    /\ UNCHANGED sizeVars
    /\ UNCHANGED groups
    /\ UNCHANGED depthVars
    /\ UNCHANGED kernelVars

\* The connection to the device is lost: the submitted work is abandoned.
DeviceLost ==
    /\ ~deviceLost
    /\ acquire = "Ok"
    /\ pc \notin {"done", "panicked"}
    /\ deviceLost' = TRUE
    /\ queue' = <<>>
    /\ UNCHANGED <<example, pc, i, encoder, tex, staging, bufState, mapResult,
                   viewLive, data, frames, image, readAt, readRes, submitAt,
                   submitRes, copyAt, passLog>>
    /\ UNCHANGED <<acquire, rx, encId, submits>>
    /\ UNCHANGED sizeVars
    /\ UNCHANGED groups
    /\ UNCHANGED depthVars
    /\ UNCHANGED kernelVars

Next ==
    \/ RequestAdapter
    \/ RequestDevice
    \/ UnwrapDevice
    \/ WriteTexture
    \/ CreateBindGroups
    \/ GolEncode
    \/ RenderEncode
    \/ Submit
    \/ MapAsync
    \/ Poll
    \/ RxAwait
    \/ GetMappedRange
    \/ WriteFrame
    \/ ToImageReturn
    \/ FromRaw
    \/ Save
    \/ Drop
    \/ Unmap
    \/ ExecWrite
    \/ ExecCompute
    \/ ExecRender
    \/ ExecCopy
    \/ DeviceLost

Spec == Init /\ [][Next]_vars

\* The steps of the host task.
HostStep ==
    \/ RequestAdapter
    \/ RequestDevice
    \/ UnwrapDevice
    \/ WriteTexture
    \/ CreateBindGroups
    \/ GolEncode
    \/ RenderEncode
    \/ Submit
    \/ MapAsync
    \/ Poll
    \/ RxAwait
    \/ GetMappedRange
    \/ WriteFrame
    \/ ToImageReturn
    \/ FromRaw
    \/ Save
    \/ Drop
    \/ Unmap

\* The steps of a device that works.
DeviceStep ==
    \/ ExecWrite
    \/ ExecCompute
    \/ ExecRender
    \/ ExecCopy

\* The host task runs to its end (pollster::block_on drives it) and the
\* device, unless it is lost, keeps executing what was submitted.
FairSpec == Spec /\ WF_vars(HostStep) /\ WF_vars(DeviceStep)

-----------------------------------------------------------------------------
(* The size computations, applied to every texture size up to MaxDim.      *)

SizesInit ==
    /\ example \in Examples
    /\ pc = "sizes"
    /\ Idle
    /\ width \in Dims
    /\ height \in Dims
    /\ texel_size \in (IF example = "gol" THEN {4} ELSE TexelSizes)
    /\ dispatched = <<>>
    /\ bufferDesc = NoDesc
    /\ DepthIdle
    /\ KernelIdle

\* gol: launch_kernel(.., &grids[0].size()) dispatches the workgroups.
LaunchKernelCall ==
    /\ pc = "sizes"
    /\ example = "gol"
    /\ dispatched = <<>>
    /\ dispatched' = WorkgroupCount(width, height)
    /\ UNCHANGED <<width, height, texel_size, bufferDesc>>
    /\ UNCHANGED runVars
    /\ UNCHANGED depthVars
    /\ UNCHANGED kernelVars

\* The staging-buffer descriptor is derived from the texture's size.
BufferDescriptorCall ==
    /\ pc = "sizes"
    /\ bufferDesc = NoDesc
    /\ LET desc == IF example = "gol"
                    THEN init_buffer(width, height)
                    ELSE create_texture_buffer_descriptor(
                           texel_size, width, height)
           overflows == IF example = "gol"
                        THEN init_buffer_overflows(width, height)
                        ELSE create_texture_buffer_descriptor_overflows(
                               texel_size, width, height)
       IN  \E build \in Builds :
             bufferDesc' = IF overflows /\ build = "debug"
                           THEN OverflowPanic
                           ELSE desc
    /\ UNCHANGED <<width, height, texel_size, dispatched>>
    /\ UNCHANGED runVars
    /\ UNCHANGED depthVars
    /\ UNCHANGED kernelVars

SizesNext ==
    \/ LaunchKernelCall
    \/ BufferDescriptorCall

SizesSpec == SizesInit /\ [][SizesNext]_vars

-----------------------------------------------------------------------------
(* The depth test of example 05's render pass, followed on one pixel that  *)
(* any set of fragments covers, drawn in any order.                        *)

\* Number of depth levels below the far value.
DepthLevels == 2

\* The far value 1.0, to which the depth target is cleared.
DepthFar == DepthLevels

\* The clear colour of the colour target.
ClearColour == "clear"

Colours == {"red", "blue"}

\* The fragments the rasteriser can produce for the pixel: depths from the
\* near value 0.0 to the far value 1.0, both included.
Fragments == [depth : 0..DepthFar, colour : Colours]

\* Variant with depth_compare: CompareFunction::LessEqual.
depth_compare_less_equal(new, stored) == new <= stored

\* depth_compare: wgpu::CompareFunction::Less.
depth_compare(new, stored) == new < stored

\* depth_write_enabled: true.
depth_write_enabled == TRUE

DepthInit ==
    /\ example = "camera"
    /\ pc = "render_pass"
    /\ Idle
    /\ width = GridWidth
    /\ height = GridHeight
    /\ texel_size = 4
    /\ dispatched = <<>>
    /\ bufferDesc = NoDesc
    /\ pixel = NoPixel
    /\ pending \in SUBSET Fragments
    /\ drawn = {}
    /\ KernelIdle

\* begin_render_pass: the load ops clear the colour target to the clear
\* colour and the depth target to 1.0.
BeginRenderPass ==
    /\ pc = "render_pass"
    /\ pixel = NoPixel
    /\ pixel' = [depth |-> DepthFar, colour |-> ClearColour]
    /\ UNCHANGED <<pending, drawn>>
    /\ UNCHANGED runVars
    /\ UNCHANGED sizeVars
    /\ UNCHANGED kernelVars

\* draw_indexed: the next fragment covering the pixel is tested against the
\* stored depth; one that passes replaces the colour and, with depth writes
\* enabled, the depth.
DrawFragment ==
    /\ pc = "render_pass"
    /\ pixel # NoPixel
    /\ \E f \in pending :
         /\ pending' = pending \ {f}
         /\ drawn' = drawn \cup {f}
         /\ pixel' = IF depth_compare(f.depth, pixel.depth)
                     THEN [depth |-> IF depth_write_enabled
                                     THEN f.depth ELSE pixel.depth,
                           colour |-> f.colour]
                     ELSE pixel
    /\ UNCHANGED runVars
    /\ UNCHANGED sizeVars
    /\ UNCHANGED kernelVars

DepthNext ==
    \/ BeginRenderPass
    \/ DrawFragment

DepthSpec == DepthInit /\ [][DepthNext]_vars

-----------------------------------------------------------------------------
(* One iteration of the automaton, cell by cell, on every small grid.      *)

\* Side of the grids the kernel is applied to.
GridSide == 3

Coords == (0..(GridSide - 1)) \X (0..(GridSide - 1))

\* The value of the cell at c, dead outside the grid.
CellAt(g, c) == IF c \in Coords THEN g[c] ELSE 0

RECURSIVE Sum(_, _)
Sum(f, S) ==
    IF S = {} THEN 0
    ELSE LET x == CHOOSE y \in S : TRUE IN f[x] + Sum(f, S \ {x})

\* Number of live cells among the eight neighbours of c.
Neighbours(g, c) ==
    LET N == {<<c[1] + dx, c[2] + dy>> : dx \in {-1, 0, 1}, dy \in {-1, 0, 1}}
               \ {c}
    IN  Sum([d \in N |-> CellAt(g, d)], N)

\* The ruleset of Conway's Game of Life on the 3x3 neighbourhood of c: a
\* live cell survives with two or three live neighbours, a dead cell is born
\* with exactly three.
game_of_life(g, c) ==
    LET n == Neighbours(g, c) IN
      IF g[c] > 0
      THEN (IF n \in {2, 3} THEN 1 ELSE 0)
      ELSE (IF n = 3 THEN 1 ELSE 0)

\* Variant that copies the texel into the pixel.
PixelOfTexel(x) == x

\* (8.5) u32 texel -> palette index: 0 (cell colour) for a live cell, 1
\* (background colour) for a dead one.
PixelOf(x) == IF x > 0 THEN 0 ELSE 1

KernelInit ==
    /\ example = "gol"
    /\ pc = "iteration"
    /\ Idle
    /\ width = GridSide
    /\ height = GridSide
    /\ texel_size = 4
    /\ dispatched = <<>>
    /\ bufferDesc = NoDesc
    /\ DepthIdle
    /\ cells \in [Coords -> {0, 1}]
    /\ nextCells = <<>>
    /\ gifFrame = <<>>

\* (8.1) The compute pass writes the next state of every cell.
KernelPass ==
    /\ pc = "iteration"
    /\ nextCells = <<>>
    /\ nextCells' = [c \in Coords |-> game_of_life(cells, c)]
    /\ UNCHANGED <<cells, gifFrame>>
    /\ UNCHANGED runVars
    /\ UNCHANGED sizeVars
    /\ UNCHANGED <<pixel, pending, drawn>>

\* (8.2)-(8.5) The grid the pass read is copied, read back, converted and
\* written as the frame of the iteration.
KernelFrame ==
    /\ pc = "iteration"
    /\ gifFrame = <<>>
    /\ gifFrame' = [c \in Coords |-> PixelOf(cells[c])]
    /\ UNCHANGED <<cells, nextCells>>
    /\ UNCHANGED runVars
    /\ UNCHANGED sizeVars
    /\ UNCHANGED <<pixel, pending, drawn>>

KernelNext ==
    \/ KernelPass
    \/ KernelFrame

KernelSpec == KernelInit /\ [][KernelNext]_vars

-----------------------------------------------------------------------------
(* Readback synchronisation                                                *)

\* C1: every call of get_mapped_range is made while the staging buffer is
\* Mapped, after its map request has been confirmed; none is made while the
\* buffer is Unmapped or MapRequested.
C1_ReadOnlyWhileMapped ==
    /\ readAt # "none" => readAt = "Mapped"
    /\ pc = "get_mapped_range" => bufState = "Mapped" /\ mapResult = "ok"

\* C2 as stated: a copy into the staging buffer is submitted, and executed by
\* the device, only while the buffer is Unmapped, and the buffer is Unmapped
\* again when the next iteration records and submits its copy.
C2_CopyOnlyWhileUnmapped ==
    example = "gol" =>
      /\ submitAt \in {"none", "Unmapped"}
      /\ copyAt \subseteq {"Unmapped"}
      /\ pc \in {"encode", "submit"} => bufState = "Unmapped"

\* C2 amended: a copy into the staging buffer is submitted only while the
\* buffer is Unmapped and the device never writes the buffer while it is
\* Mapped (it may write it while it is MapRequested); the buffer is Unmapped
\* again when the next iteration records and submits its copy.
C2_CopyNeverWhileMapped ==
    example = "gol" =>
      /\ submitAt \in {"none", "Unmapped"}
      /\ "Mapped" \notin copyAt
      /\ bufState = "Mapped" => queue = <<>>
      /\ pc \in {"encode", "submit"} => bufState = "Unmapped"

\* C2 witness: in a later iteration of the loop the device has written the
\* released buffer again, and has written it while a map request was pending.
C2_Witness ==
    /\ example = "gol"
    /\ i >= 1
    /\ staging[2].seq = i
    /\ "MapRequested" \in copyAt

\* The transitions of the staging buffer's mapping state the claim allows,
\* each with the host statement that causes it.
C3_Edge(from, to, at) ==
    \/ from = "Unmapped" /\ to = "MapRequested" /\ at = "map_async"
    \/ from = "MapRequested" /\ to = "Mapped" /\ at = "poll"
    \/ from = "Mapped" /\ to = "Unmapped" /\ at = "unmap"

\* C3 as stated: the mapping state changes only along Unmapped ->
\* MapRequested (map request), MapRequested -> Mapped (during polling) and
\* Mapped -> Unmapped (unmap); unmap is never called while MapRequested and
\* no map request is issued while one is pending or the buffer is Mapped.
C3_OnlyThreeEdges ==
    /\ [][bufState' # bufState => C3_Edge(bufState, bufState', pc)]_vars
    /\ [](pc = "unmap" => bufState # "MapRequested")
    /\ [](pc = "map_async" => bufState = "Unmapped")

\* C3 amended: as stated, with one more transition: MapRequested -> Unmapped
\* during polling, when the pending map resolves to an error.
C3_EdgesWithFailure ==
    /\ [][bufState' # bufState =>
            \/ C3_Edge(bufState, bufState', pc)
            \/ /\ bufState = "MapRequested" /\ bufState' = "Unmapped"
               /\ pc = "poll" /\ mapResult' = "err"]_vars
    /\ [](pc = "unmap" => bufState = "Mapped")
    /\ [](pc = "map_async" => bufState = "Unmapped")

\* C3 witness: after a complete cycle in an earlier iteration, a pending map
\* has resolved to an error and left the buffer Unmapped.
C3_Witness ==
    /\ i >= 1
    /\ Len(frames) >= 1
    /\ mapResult = "err"
    /\ bufState = "Unmapped"

\* A whole copy of iteration n's sequence, untorn.
FullCopyOf(d, n) == d[1].seq = n /\ d[2].seq = n /\ d[1].val = d[2].val

\* C4: the buffer is Mapped only when no submitted command is left to run,
\* and the bytes the host sees in iteration i are the whole copy made by the
\* sequence of iteration i: frame k is the copy of iteration k - 1.
C4_ReadSeesThisIterationsCopy ==
    /\ bufState = "Mapped" => queue = <<>> /\ FullCopyOf(staging, i)
    /\ viewLive => FullCopyOf(data, i)
    /\ \A k \in 1..Len(frames) : FullCopyOf(frames[k], k - 1)
    /\ pc \in {"save", "done"} /\ example # "gol" => FullCopyOf(image, 0)

\* C4 witness: the host holds the view in the third iteration.
C4_Witness ==
    /\ example = "gol"
    /\ i >= 2
    /\ viewLive
    /\ data[1].seq = i

\* C5: the mapping is confirmed, and the completion signal fires, only in a
\* step of device.poll; the host never awaits a signal that has not fired.
C5_ConfirmedOnlyByPolling ==
    /\ [][bufState = "MapRequested" /\ bufState' = "Mapped" => pc = "poll"]_vars
    /\ [][mapResult' # mapResult /\ mapResult' # "none" => pc = "poll"]_vars
    /\ [](pc = "rx_await" => mapResult # "none")

\* C5 witness: the host awaits the map result after a poll has confirmed it.
C5_Witness ==
    /\ pc = "rx_await"
    /\ mapResult = "ok"
    /\ bufState = "Mapped"

\* C6: a view of the staging buffer exists only while the buffer is Mapped;
\* it has been dropped when unmap is called, and the host touches the bytes
\* only while it holds the view.
C6_ViewWithinMappingWindow ==
    /\ viewLive => bufState = "Mapped"
    /\ pc = "unmap" => ~viewLive
    /\ pc \in {"write_frame", "to_image_return", "from_raw"} => viewLive

\* C6 witness: the host is about to unmap a buffer it has read, the view
\* already dropped.
C6_Witness ==
    /\ pc = "unmap"
    /\ readRes = "view"
    /\ ~viewLive
    /\ bufState = "Mapped"

\* C7 as stated: a read of the staging buffer, or a submission of a copy into
\* it, made while the buffer is MapRequested or Mapped fails with
\* BufferBusyError.
C7_BusyFails ==
    /\ readAt \in {"MapRequested", "Mapped"} => readRes = "BufferBusyError"
    /\ submitAt \in {"MapRequested", "Mapped"} => submitRes = "BufferBusyError"

\* C7 amended: the host never reads the staging buffer while it is
\* MapRequested and never submits a copy into it while it is MapRequested or
\* Mapped; a read while the buffer is Mapped succeeds, yields the view and
\* leaves the buffer's state unchanged.
C7_NoBusyAttempt ==
    /\ [](readAt # "MapRequested")
    /\ [](readAt = "Mapped" => readRes = "view")
    /\ [](submitAt \notin {"MapRequested", "Mapped"})
    /\ [][pc = "get_mapped_range" /\ pc' # pc => bufState' = bufState]_vars

\* C7 witness: a read made while the buffer was Mapped has yielded the view.
C7_Witness ==
    /\ readAt = "Mapped"
    /\ readRes = "view"
    /\ viewLive
    /\ bufState = "Mapped"

-----------------------------------------------------------------------------
(* Ping-pong                                                               *)

\* The slot seeded with the initial state is the first input.
InitialRole == 0

\* Exclusive or of two bits.
Xor(a, b) == (a + b) % 2

\* The role assignment in force after i iterations.
CurrentInput == BindGroupOf(i).input
CurrentOutput == BindGroupOf(i).output

\* C8: after N iterations the input slot is InitialRole XOR (N mod 2), in
\* every state with that iteration count; so is the input slot of every pass
\* recorded and of every pass executed.
C8_InputSlotXorLaw ==
    example = "gol" =>
      /\ CurrentInput = Xor(InitialRole, i % 2)
      /\ \A k \in 1..Len(encoder) :
            encoder[k].op = "compute" =>
              encoder[k].a = Xor(InitialRole, i % 2)
      /\ \A k \in 1..Len(passLog) :
            passLog[k].in = Xor(InitialRole, passLog[k].seq % 2)

\* C8 witness: the pass of the third iteration is recorded.
C8_Witness ==
    /\ example = "gol"
    /\ i >= 2
    /\ pc = "submit"
    /\ Len(passLog) = i

\* C9 as stated: after 2 iterations the current output slot is slot A.
C9_OutputIsSeedSlot ==
    example = "gol" /\ i = 2 => CurrentOutput = InitialRole

\* C9 amended: after 2 iterations the current input slot is slot A and the
\* current output slot is slot B; slot A is the slot the second pass wrote.
C9_InputIsSeedSlot ==
    example = "gol" /\ i = 2 =>
      /\ CurrentInput = InitialRole
      /\ CurrentOutput = 1 - InitialRole
      /\ Len(passLog) >= 2 => passLog[2].out = InitialRole

\* C9 witness: two iterations are complete and both passes have run.
C9_Witness ==
    /\ example = "gol"
    /\ i = 2
    /\ Len(passLog) = 2
    /\ Len(frames) = 2

\* C10: the k-th pass executed belongs to iteration k - 1; the first reads
\* the seeded slot A; every later one reads the slot, and the state, the pass
\* before it wrote, and writes the other slot.
C10_ReadsPreviousOutput ==
    \A k \in 1..Len(passLog) :
      /\ passLog[k].seq = k - 1
      /\ passLog[k].out = 1 - passLog[k].in
      /\ k = 1 => passLog[k].in = InitialRole /\ passLog[k].read = SeedState
      /\ k > 1 => /\ passLog[k].in = passLog[k - 1].out
                  /\ passLog[k].read = passLog[k - 1].wrote

\* C10 witness: three passes have run.
C10_Witness == Len(passLog) >= 3

-----------------------------------------------------------------------------
(* Emitted frames                                                          *)

\* C11: every iteration copies its own input slot into the staging buffer,
\* so that frame k (counted from 1) is the state the pass of iteration k - 1
\* read, before that pass wrote anything: the first frame is the seed, and
\* the state written by the last pass of a complete run is never emitted.
C11_FrameIsInputOfItsPass ==
    example = "gol" =>
      /\ \A k \in 1..Len(encoder) :
            encoder[k].op = "copy" =>
              encoder[k].a = BindGroupOf(encoder[k].seq).input
      /\ Len(frames) <= Len(passLog)
      /\ \A k \in 1..Len(frames) : \A h \in 1..2 :
            k <= Len(passLog) =>
              frames[k][h] = [seq |-> k - 1, val |-> passLog[k].read]
      /\ Len(frames) >= 1 => frames[1][1].val = SeedState
      /\ pc = "done" =>
            \A k \in 1..Len(frames) : \A h \in 1..2 :
              frames[k][h].val # passLog[Len(passLog)].wrote

C11_Witness ==
    /\ example = "gol"
    /\ pc = "done"
    /\ Len(frames) = N_ITERS
    /\ Len(passLog) = N_ITERS

\* The state n applications of the kernel after the seed.
RECURSIVE StateAfter(_)
StateAfter(n) == IF n = 0 THEN SeedState ELSE Step(StateAfter(n - 1))

\* The frame iteration n emits when nothing fails: both halves of the copy
\* recorded by iteration n, holding the state n steps after the seed.
ExpectedFrame(n) ==
    << [seq |-> n, val |-> StateAfter(n)], [seq |-> n, val |-> StateAfter(n)] >>

\* C12: the emitted frame sequence is a function of the seed and of the
\* iteration count alone: in every interleaving of host steps and device
\* steps the frames emitted so far are the same prefix, and a run that
\* completes has emitted the same N_ITERS frames, so that two runs from the
\* same seed with the same iteration count emit identical sequences.
C12_FramesIndependentOfInterleaving ==
    example = "gol" =>
      /\ Len(frames) <= N_ITERS
      /\ frames = [k \in 1..Len(frames) |-> ExpectedFrame(k - 1)]
      /\ pc = "done" => Len(frames) = N_ITERS

C12_Witness ==
    /\ example = "gol"
    /\ pc = "done"
    /\ ~deviceLost
    /\ frames = [k \in 1..N_ITERS |-> ExpectedFrame(k - 1)]

-----------------------------------------------------------------------------
(* Dispatch counts and buffer sizes                                        *)

\* C13: for every grid width and height, launch_kernel dispatches enough
\* 16 x 16 workgroups to cover the whole grid: every cell lies in some
\* dispatched workgroup.
C13_DispatchCoversGrid ==
    dispatched # <<>> =>
      /\ dispatched[1] * WorkgroupSize >= width
      /\ dispatched[2] * WorkgroupSize >= height

\* C14: for the 256 x 256 grid the dispatched workgroup count is exactly
\* 16 x 16 x 1.
C14_Dispatch256Is16x16x1 ==
    (width = 256 /\ height = 256 /\ dispatched # <<>>) =>
      dispatched = <<16, 16, 1>>

C14_Witness ==
    /\ example = "gol"
    /\ width = GridWidth
    /\ height = GridHeight
    /\ dispatched = <<16, 16, 1>>

\* The device's minimum row alignment for texture-to-buffer copies.
RowAlignment == 256

RoundUp(x, a) == ((x + a - 1) \div a) * a

\* C15: for every texture width and height the staging-buffer descriptor has
\* size = (texel size x width, rounded up to the row alignment) x height and
\* its usage is exactly copy-destination plus host-readable.
C15_DescriptorSizeRowAligned ==
    bufferDesc # NoDesc =>
      /\ bufferDesc.size =
           WideMul(Wide(RoundUp(texel_size * width, RowAlignment)), height)
      /\ bufferDesc.usage = {"COPY_DST", "MAP_READ"}

-----------------------------------------------------------------------------
(* Order within a submitted sequence                                       *)

\* Both halves of the copy of the finished render target.
RenderedImage ==
    << [seq |-> 0, val |-> Rendered], [seq |-> 0, val |-> Rendered] >>

\* C16: in the render examples the copy recorded after the render pass runs
\* after the whole pass: every half the device writes into the staging buffer
\* holds the fully rendered target, never the target before the pass or
\* between its clear and its draw, and so do the bytes the host reads back
\* and the image it saves.
C16_CopySeesWholeRenderPass ==
    example \in {"triangle", "camera"} =>
      /\ \A h \in 1..2 : staging[h] \in {NoCopy, RenderedImage[h]}
      /\ staging # <<NoCopy, NoCopy>> => tex[0] = Rendered
      /\ readRes = "view" => data = RenderedImage
      /\ pc \in {"save", "done"} => image = RenderedImage

C16_Witness ==
    /\ example \in {"triangle", "camera"}
    /\ pc = "done"
    /\ image = RenderedImage

-----------------------------------------------------------------------------
(* Failures                                                                *)

\* C17: when a pending map resolves to an error the buffer ends Unmapped and
\* the host does not go on to read it: no call of get_mapped_range follows.
C17_FailedMapIsNotRead ==
    mapResult = "err" =>
      /\ bufState = "Unmapped"
      /\ pc # "get_mapped_range"
      /\ readRes # "panic"

\* C18: the result of every map request, success or error, reaches the host
\* code that asked for the readback; none is discarded.
C18_MapResultReachesCaller ==
    mapResult # "none" => rx = mapResult

\* C19: device acquisition ends with a device context or with an error value
\* returned to its caller, never otherwise, and unless it ended with a device
\* no encoder is created and nothing is submitted.
C19_AcquireReturnsDeviceOrError ==
    /\ acquire \in {"none", "Ok", "Err"}
    /\ acquire # "Ok" => encId = 0 /\ submits = <<>> /\ queue = <<>>

-----------------------------------------------------------------------------
(* Command sequences                                                       *)

\* Number of submissions of the commands of encoder e.
SubmitCount(e) == Cardinality({k \in 1..Len(submits) : submits[k] = e})

\* C20: every command encoder is submitted exactly once (the current one not
\* yet while the host is between recording and submitting), nothing is
\* recorded in an encoder outside that window, and each loop iteration
\* creates its own encoder.
C20_SequenceSubmittedOnce ==
    /\ \A k \in 1..Len(submits) : submits[k] \in 1..encId
    /\ \A e \in 1..encId :
          SubmitCount(e) = IF e = encId /\ pc = "submit" THEN 0 ELSE 1
    /\ pc # "submit" => encoder = <<>>
    /\ \A k \in 1..Len(encoder) : encoder[k].seq = encId - 1
    /\ example = "gol" /\ pc \in Labels =>
          encId = IF pc = "encode" THEN i ELSE i + 1

C20_Witness ==
    /\ example = "gol"
    /\ pc = "done"
    /\ submits = [k \in 1..N_ITERS |-> k]

-----------------------------------------------------------------------------
(* Bind groups                                                             *)

\* The host is inside the loop `for i in 0..N_ITERS`, or past it.
InLoop == example = "gol" /\ pc \in Labels \cup {"done"}

\* C21: exactly two bind groups exist when the loop starts, one binding slot
\* 0 as input and slot 1 as output and the other slot 1 as input and slot 0
\* as output, and no step of the loop creates, replaces or alters one; every
\* recorded compute pass uses one of the two.
C21_TwoBindGroupsFixed ==
    /\ [](InLoop =>
           /\ Len(groups) = 2
           /\ groups[1] = [input |-> 0, output |-> 1]
           /\ groups[2] = [input |-> 1, output |-> 0]
           /\ \A k \in 1..Len(encoder) :
                 encoder[k].op = "compute" =>
                   \E g \in 1..Len(groups) :
                     /\ groups[g].input = encoder[k].a
                     /\ groups[g].output = encoder[k].b)
    /\ [][InLoop => groups' = groups]_vars

C21_Witness ==
    /\ example = "gol"
    /\ pc = "done"
    /\ i = N_ITERS
    /\ Len(groups) = 2

-----------------------------------------------------------------------------
(* Host and device concurrency                                             *)

\* The statements of run() other than the poll and the await of the map
\* result, each with the step that executes it.
C22_StepAt(l) ==
    CASE l = "encode" -> ENABLED (GolEncode \/ RenderEncode)
      [] l = "submit" -> ENABLED Submit
      [] l = "map_async" -> ENABLED MapAsync
      [] l = "get_mapped_range" -> ENABLED GetMappedRange
      [] l = "write_frame" -> ENABLED WriteFrame
      [] l = "to_image_return" -> ENABLED ToImageReturn
      [] l = "from_raw" -> ENABLED FromRaw
      [] l = "save" -> ENABLED Save
      [] l = "drop" -> ENABLED Drop
      [] l = "unmap" -> ENABLED Unmap
      [] OTHER -> TRUE

\* C22: submit and map_async return without waiting for the device, like
\* every host step but the poll: whatever the device has or has not done,
\* the host can take the step it is at, except that the poll cannot return
\* while submitted work is outstanding; awaiting the map result never
\* blocks, because the poll came first.
C22_OnlyPollWaits ==
    /\ pc \in Labels => C22_StepAt(pc)
    /\ pc = "rx_await" => ENABLED RxAwait
    /\ pc = "poll" /\ ~WorkDone => ~ENABLED Poll

\* The host is past submit and map_async while the buffer is still
\* MapRequested and the submitted sequence is incomplete.
C22_Witness ==
    /\ example = "gol"
    /\ pc = "poll"
    /\ submitRes = "ok"
    /\ bufState = "MapRequested"
    /\ \E k \in 1..Len(queue) : queue[k].seq = i

-----------------------------------------------------------------------------
(* Depth test                                                              *)

Min(S) == CHOOSE x \in S : \A y \in S : x <= y

\* The depth the claim gives the pixel: the minimum of the clear value and
\* of the depths of the fragments drawn so far.
ResolvedDepth == Min({DepthFar} \cup {f.depth : f \in drawn})

\* Drawing a fragment whose depth equals the stored depth changes nothing.
EqualDepthKeepsStored ==
    \A f \in pending :
      (drawn' = drawn \cup {f} /\ pending' = pending \ {f}
         /\ f.depth = pixel.depth) => pixel' = pixel

\* C23 as stated: after the clear, in whatever order the fragments are drawn,
\* the stored depth is the minimum of the clear value and of the fragments'
\* depths, the colour is that of a nearest covering fragment, and a fragment
\* at equal depth does not replace the stored one.
C23_ColourOfNearestFragment ==
    /\ [](pixel # NoPixel =>
           /\ pixel.depth = ResolvedDepth
           /\ drawn # {} =>
                 \E f \in drawn :
                   /\ f.depth = Min({g.depth : g \in drawn})
                   /\ f.colour = pixel.colour)
    /\ [][EqualDepthKeepsStored]_vars

\* C23 amended: the stored depth is the minimum of the clear value and of
\* the fragments' depths in whatever order they are drawn; the colour is
\* that of a covering fragment at that depth when some fragment is nearer
\* than the clear value, and the clear colour otherwise (fragments at the
\* far value do not pass the test); a fragment at equal depth does not
\* replace the stored one.
C23_ColourOfNearestPassingFragment ==
    /\ [](pixel # NoPixel =>
           /\ pixel.depth = ResolvedDepth
           /\ IF ResolvedDepth < DepthFar
              THEN \E f \in drawn :
                     /\ f.depth = ResolvedDepth
                     /\ f.colour = pixel.colour
              ELSE pixel.colour = ClearColour)
    /\ [][EqualDepthKeepsStored]_vars

\* Two fragments of different colours at the same nearest depth and one
\* farther fragment have been drawn.
C23_Witness ==
    /\ pending = {}
    /\ pixel.depth < DepthFar
    /\ \E f, g, h \in drawn :
         /\ f.depth = pixel.depth
         /\ g.depth = pixel.depth
         /\ f.colour # g.colour
         /\ h.depth > pixel.depth

-----------------------------------------------------------------------------
(* The automaton                                                           *)

AllDead(g) == \A c \in Coords : g[c] = 0

\* C24: one iteration on an all-dead grid leaves the output grid all-dead,
\* and the frame written for that iteration shows every cell dead (every
\* pixel is the background palette entry).
C24_AllDeadIsFixedPoint ==
    AllDead(cells) =>
      /\ nextCells # <<>> => AllDead(nextCells)
      /\ gifFrame # <<>> => \A c \in Coords : gifFrame[c] = 1

C24_Witness ==
    /\ AllDead(cells)
    /\ nextCells # <<>>
    /\ AllDead(nextCells)
    /\ gifFrame # <<>>

-----------------------------------------------------------------------------
(* Slots                                                                   *)

\* C25: no slot is read before it has been written: the state every compute
\* pass read, and every state copied into the staging buffer, read back or
\* written as a frame, is the seed or the output of an earlier pass; the
\* seed upload is ahead of every pass and copy in the queue, and slot 1 is
\* read for the first time by iteration 1.
C25_NoReadBeforeWrite ==
    example = "gol" =>
      /\ \A k \in 1..Len(passLog) :
            /\ passLog[k].read # Blank
            /\ passLog[k].in = 1 => k >= 2 /\ passLog[k - 1].out = 1
      /\ \A h \in 1..2 :
            /\ staging[h] # NoCopy => staging[h].val # Blank
            /\ staging[h].seq = 0 => staging[h].val = SeedState
      /\ \A k \in 1..Len(frames) : \A h \in 1..2 : frames[k][h].val # Blank
      /\ \A j, k \in 1..Len(queue) :
            queue[j].op = "write" /\ queue[k].op # "write" => j < k
      /\ \A k \in 1..Len(queue) :
            queue[k].op # "write" /\ queue[k].a = 1 => queue[k].seq >= 1

C25_Witness ==
    /\ example = "gol"
    /\ Len(passLog) >= 2
    /\ passLog[2].in = 1
    /\ passLog[2].read = passLog[1].wrote
    /\ staging[1].seq = 1

\* In the command sequence S no copy reads the texture that the compute
\* pass of the same iteration writes.
CopyAvoidsPassOutput(S) ==
    \A j, k \in 1..Len(S) :
      (S[j].op = "compute" /\ S[k].op = "copy" /\ S[j].seq = S[k].seq)
        => S[k].a # S[j].b

\* C26: in every iteration the input slot and the output slot of the compute
\* pass are different slots, and the texture copied into the staging buffer
\* is never the one the compute pass of the same sequence writes.
C26_InputOutputDistinct ==
    example = "gol" =>
      /\ \A g \in 1..Len(groups) : groups[g].input # groups[g].output
      /\ \A k \in 1..Len(encoder) :
            encoder[k].op = "compute" => encoder[k].a # encoder[k].b
      /\ \A k \in 1..Len(passLog) : passLog[k].in # passLog[k].out
      /\ CopyAvoidsPassOutput(encoder)
      /\ CopyAvoidsPassOutput(queue)

C26_Witness ==
    /\ example = "gol"
    /\ pc = "submit"
    /\ i = 1
    /\ Len(encoder) = 3
    /\ encoder[1].op = "compute"
    /\ encoder[2].op = "copy"
    /\ encoder[2].a = 1
    /\ encoder[1].b = 0

-----------------------------------------------------------------------------
(* Sequences in flight                                                     *)

\* C27: in the loop at most one submitted sequence is incomplete at any
\* time: when the host submits the sequence of an iteration the device has
\* completed the sequences of all earlier iterations, the host has read
\* their frames, and the staging buffer is released.
C27_OneSequenceInFlight ==
    example = "gol" =>
      /\ \A j, k \in 1..Len(queue) :
            (queue[j].op # "write" /\ queue[k].op # "write")
              => queue[j].seq = queue[k].seq
      /\ \A k \in 1..Len(queue) : queue[k].op # "write" => queue[k].seq = i
      /\ pc = "submit" =>
            /\ \A k \in 1..Len(queue) : queue[k].op = "write"
            /\ Len(passLog) = i
            /\ Len(frames) = i
            /\ bufState = "Unmapped"
            /\ ~viewLive

\* The second sequence is in flight, the first one complete and read.
C27_Witness ==
    /\ example = "gol"
    /\ i = 1
    /\ Len(submits) = 2
    /\ Len(queue) = 3
    /\ Len(passLog) = 1
    /\ Len(frames) = 1

-----------------------------------------------------------------------------
(* Termination                                                             *)

\* The loop has ended after N_ITERS iterations, N_ITERS submissions and
\* N_ITERS frames in iteration order, with the staging buffer Unmapped.
LoopEnded ==
    /\ pc = "done"
    /\ i = N_ITERS
    /\ Len(submits) = N_ITERS
    /\ Len(frames) = N_ITERS
    /\ \A k \in 1..Len(frames) : \A h \in 1..2 : frames[k][h].seq = k - 1
    /\ bufState = "Unmapped"
    /\ queue = <<>>

-----------------------------------------------------------------------------
(* Staging-buffer size against the copy and against u32 arithmetic         *)

\* A texture of the drawn width and height can be created on the device: both
\* sides are within the device's texture-dimension limit.
TextureCreatable ==
    /\ width <= MaxTextureDimension
    /\ height <= MaxTextureDimension

\* C29: for the width and height of every texture the device can create, the
\* staging buffer's byte size equals the number of bytes the
\* texture-to-buffer copy writes, bytes_per_row x rows with bytes_per_row =
\* texel size x width, so the copy ends exactly at the end of the buffer, and
\* the buffer holds exactly width x height texels.
C29_StagingSizeIsCopySize ==
    (bufferDesc # NoDesc /\ TextureCreatable) =>
      /\ bufferDesc.size = CopyBytes(texel_size, width, height)
      /\ BytesPerRow(texel_size, width) = Wide(texel_size * width)
      /\ bufferDesc.size = WideMul(WideMul(Wide(width), height), texel_size)

\* The largest texture the device creates, with the largest texel: 16 x 8192
\* x 8192 = 2^30 bytes.
C29_Witness ==
    /\ example # "gol"
    /\ width = MaxTextureDimension
    /\ height = MaxTextureDimension
    /\ texel_size = 16
    /\ bufferDesc.size = << 2^14, 0 >>

\* C30: for all 32-bit unsigned width and height, the staging-buffer size
\* computed as texel size x width x height equals the mathematical product:
\* the 32-bit multiplication never wraps around modulo 2^32.
C30_SizeIsMathematicalProduct ==
    bufferDesc # NoDesc =>
      bufferDesc.size = WideMul(WideMul(Wide(texel_size), width), height)

=============================================================================
